---- MODULE Spec2Model ----
(***************************************************************************)
(* State-machine model of the <dynamic-datalist> custom element            *)
(* (src/dynamic-datalist.js, class DynamicDatalistElement, lines 338-581). *)
(*                                                                         *)
(* Strings of the program are sequences of one-character strings, so that  *)
(* toLowerCase, URLSearchParams serialisation and JSON.stringify are       *)
(* computed character by character.  JavaScript null is the distinguished  *)
(* sequence Null, which is no string of characters.                        *)
(***************************************************************************)
EXTENDS Integers, Sequences, FiniteSets, TLC

\* ------------------------------------------------------------------ bounds

\* Most listeners of the widget registered on the input at once.
MaxListeners == 2
\* Most pending timers (the code keeps one; a second is room for a fault).
MaxTimers == 2
\* Most requests in flight at once.
MaxInflight == 2

\* ----------------------------------------------------------------- strings

Null == <<"<null>">>

S_get == <<"g", "e", "t">>
S_post == <<"p", "o", "s", "t">>
S_POST == <<"P", "O", "S", "T">>
S_Post == <<"P", "o", "s", "t">>
S_put == <<"p", "u", "t">>
S_query == <<"q", "u", "e", "r", "y">>
S_api == <<"/", "x">>
S_k == <<"k">>
S_empty == << >>
S_a == <<"a">>
S_b == <<"b">>

UpperLetters ==
    <<"A", "B", "C", "D", "E", "F", "G", "H", "I", "J", "K", "L", "M",
      "N", "O", "P", "Q", "R", "S", "T", "U", "V", "W", "X", "Y", "Z">>

LowerLetters ==
    <<"a", "b", "c", "d", "e", "f", "g", "h", "i", "j", "k", "l", "m",
      "n", "o", "p", "q", "r", "s", "t", "u", "v", "w", "x", "y", "z">>

LowerChar(c) ==
    IF \E i \in DOMAIN UpperLetters : UpperLetters[i] = c
    THEN LowerLetters[CHOOSE i \in DOMAIN UpperLetters : UpperLetters[i] = c]
    ELSE c

\* String.prototype.toLowerCase
ToLowerCase(s) == [i \in DOMAIN s |-> LowerChar(s[i])]

\* Fault: only null is falsy, the empty string passes.
Truthy_NonNull(s) == s # Null

\* JavaScript truthiness of a string-or-null value: null and "" are falsy.
Truthy(s) == s # Null /\ s # S_empty

\* a || b on string-or-null values
OrElse(a, b) == IF Truthy(a) THEN a ELSE b

\* ----------------------------------------------------------- configuration

AttrNames == {"endpoint", "method", "key"}

\* Element.getAttribute: the value, or null when the attribute is absent.
GetAttribute(as, name) == as[name]

\* get endpoint()
EndpointOf(as) == GetAttribute(as, "endpoint")

\* Fault: the method property has no default.
MethodOf_NoDefault(as) == GetAttribute(as, "method")

\* get method()
MethodOf(as) == OrElse(GetAttribute(as, "method"), S_get)

\* Fault: the key attribute is not read, the name is always 'query'.
KeyOf_Fixed(as) == S_query

\* get key()
KeyOf(as) == OrElse(GetAttribute(as, "key"), S_query)

\* element[name] read through the accessor
PropertyGetter(as, name) ==
    CASE name = "endpoint" -> EndpointOf(as)
      [] name = "method" -> MethodOf(as)
      [] OTHER -> KeyOf(as)

\* JavaScript values handed to a property setter.
JsString(s) == [t |-> "string", s |-> s, n |-> 0]
JsNumber(n) == [t |-> "number", s |-> S_empty, n |-> n]
JsBoolean(b) == [t |-> "boolean", s |-> S_empty, n |-> IF b THEN 1 ELSE 0]
JsNull == [t |-> "null", s |-> S_empty, n |-> 0]
JsUndefined == [t |-> "undefined", s |-> S_empty, n |-> 0]
\* No own instance field of that name.
Absent == [t |-> "absent", s |-> S_empty, n |-> 0]

DigitChars == <<"0", "1", "2", "3", "4", "5", "6", "7", "8", "9">>

RECURSIVE Digits(_)
Digits(n) ==
    IF n < 10 THEN <<DigitChars[n + 1]>>
    ELSE Digits(n \div 10) \o <<DigitChars[(n % 10) + 1]>>

\* The string setAttribute stores for a value (String(value)).
JsToString(v) ==
    CASE v.t = "string" -> v.s
      [] v.t = "number" -> Digits(v.n)
      [] v.t = "boolean" -> IF v.n = 1 THEN <<"t", "r", "u", "e">>
                            ELSE <<"f", "a", "l", "s", "e">>
      [] v.t = "null" -> <<"n", "u", "l", "l">>
      [] OTHER -> <<"u", "n", "d", "e", "f", "i", "n", "e", "d">>

SetAttribute(as, name, s) == [as EXCEPT ![name] = s]

RemoveAttribute(as, name) == [as EXCEPT ![name] = Null]

\* Fault: every falsy value removes the attribute.
PropertySetter_Falsy(as, name, v) ==
    IF v.t = "null" \/ v.t = "undefined" \/ JsToString(v) \in {S_empty, <<"0">>, <<"f", "a", "l", "s", "e">>}
    THEN RemoveAttribute(as, name)
    ELSE SetAttribute(as, name, JsToString(v))

\* set endpoint(value), set method(value), set key(value)
PropertySetter(as, name, v) ==
    IF v.t = "null" \/ v.t = "undefined"
    THEN RemoveAttribute(as, name)
    ELSE SetAttribute(as, name, JsToString(v))

\* Fault: the own field is deleted and its value is not assigned again.
UpgradeProperty_DropsValue(st, prop) ==
    [attrs |-> st.attrs, own |-> [st.own EXCEPT ![prop] = Absent]]

\* _upgradeProperty(prop) on the pair <<attributes, own fields>>
UpgradeProperty(st, prop) ==
    IF st.own[prop] # Absent
    THEN [attrs |-> PropertySetter(st.attrs, prop, st.own[prop]),
          own |-> [st.own EXCEPT ![prop] = Absent]]
    ELSE st

\* ---------------------------------------------------------------- requests

Letters == {UpperLetters[i] : i \in DOMAIN UpperLetters}
               \cup {LowerLetters[i] : i \in DOMAIN LowerLetters}

\* Characters application/x-www-form-urlencoded leaves as they are.
FormSafe == Letters \cup {DigitChars[i] : i \in DOMAIN DigitChars}
                \cup {"*", "-", ".", "_"}

\* Percent codes of the other characters of the model's alphabet.
PercentCode(c) ==
    CASE c = "&" -> <<"%", "2", "6">>
      [] c = "=" -> <<"%", "3", "D">>
      [] c = "/" -> <<"%", "2", "F">>
      [] c = "?" -> <<"%", "3", "F">>
      [] c = "+" -> <<"%", "2", "B">>
      [] c = "%" -> <<"%", "2", "5">>
      [] c = "\"" -> <<"%", "2", "2">>
      [] c = "\\" -> <<"%", "5", "C">>
      [] OTHER -> <<"%", "3", "F">>

RECURSIVE FormEncode(_)
FormEncode(s) ==
    IF s = << >> THEN << >>
    ELSE (IF Head(s) \in FormSafe THEN <<Head(s)>>
          ELSE IF Head(s) = " " THEN <<"+">>
          ELSE PercentCode(Head(s))) \o FormEncode(Tail(s))

\* new URLSearchParams(payload).toString(), payload a sequence of name/value pairs
RECURSIVE URLSearchParamsToString(_)
URLSearchParamsToString(pairs) ==
    IF pairs = << >> THEN << >>
    ELSE FormEncode(Head(pairs)[1]) \o <<"=">> \o FormEncode(Head(pairs)[2])
         \o (IF Tail(pairs) = << >> THEN << >>
             ELSE <<"&">> \o URLSearchParamsToString(Tail(pairs)))

RECURSIVE JsonEscape(_)
JsonEscape(s) ==
    IF s = << >> THEN << >>
    ELSE (IF Head(s) = "\"" \/ Head(s) = "\\" THEN <<"\\", Head(s)>>
          ELSE <<Head(s)>>) \o JsonEscape(Tail(s))

JsonQuote(s) == <<"\"">> \o JsonEscape(s) \o <<"\"">>

\* JSON.stringify(payload), payload a sequence of name/value pairs
RECURSIVE JsonMembers(_)
JsonMembers(pairs) ==
    IF pairs = << >> THEN << >>
    ELSE JsonQuote(Head(pairs)[1]) \o <<":">> \o JsonQuote(Head(pairs)[2])
         \o (IF Tail(pairs) = << >> THEN << >>
             ELSE <<",">> \o JsonMembers(Tail(pairs)))

JSONStringify(pairs) == <<"{">> \o JsonMembers(pairs) \o <<"}">>

\* `${value}` of a string-or-null value
TemplateString(s) == IF s = Null THEN <<"n", "u", "l", "l">> ELSE s

JsonHeaders == {<<"Content-Type", "application/json">>}

\* Fault: the method is compared without lowering its case.
FetchCall_CaseSensitive(as, query) ==
    LET method == MethodOf(as)
        payload == << <<KeyOf(as), query>> >>
    IN  IF method = S_post
        THEN [method |-> "POST", url |-> EndpointOf(as),
              headers |-> JsonHeaders, body |-> JSONStringify(payload)]
        ELSE [method |-> "GET",
              url |-> TemplateString(EndpointOf(as)) \o <<"?">>
                          \o URLSearchParamsToString(payload),
              headers |-> {}, body |-> Null]

\* The arguments __fetchOptions(query) hands to fetch under attributes as.
FetchCall(as, query) ==
    LET method == ToLowerCase(MethodOf(as))
        payload == << <<KeyOf(as), query>> >>
    IN  IF method = S_post
        THEN [method |-> "POST", url |-> EndpointOf(as),
              headers |-> JsonHeaders, body |-> JSONStringify(payload)]
        ELSE [method |-> "GET",
              url |-> TemplateString(EndpointOf(as)) \o <<"?">>
                          \o URLSearchParamsToString(payload),
              headers |-> {}, body |-> Null]

\* ------------------------------------------------------------------- state

VARIABLES
    attrs,            \* the element's attributes endpoint, method, key (Null: absent)
    own,              \* own instance fields set before the element was upgraded
    connected,        \* the element is in a document
    pendingInit,      \* microtasks queued by connectedCallback, not yet run
    hasInputChild,    \* the element has a descendant input
    inputValue,       \* the input's value
    inputList,        \* the input's list attribute (NoList when absent)
    lists,            \* id -> entries, of the datalist elements that can be found
    input,            \* this.__$input is resolved
    datalist,         \* this.__$datalist: a list id, NoList when unresolved
    listeners,        \* bound handlers registered for keyup on the input
    boundHandleKeyup, \* this.__boundHandleKeyup: a handler id, 0 when undefined
    timers,           \* pending timeouts: [id, value]
    debounceTimer,    \* this.__debounceTimer: a timeout id, 0 when undefined
    inflight,         \* __fetchOptions calls suspended at an await, oldest first:
                      \* [phase, before, overtaken], before the bound list's
                      \* entries when the request was issued, overtaken whether
                      \* a request issued later has updated the list since
    out               \* what the last step did: warnings, events, fetch calls

vars ==
    <<attrs, own, connected, pendingInit, hasInputChild, inputValue, inputList,
      lists, input, datalist, listeners, boundHandleKeyup, timers,
      debounceTimer, inflight, out>>

\* The widget's own fields and the DOM state it writes (all but the event
\* trace `out` and the input's value, which the page writes).
widgetVars ==
    <<attrs, own, connected, pendingInit, inputList, lists, input, datalist,
      listeners, boundHandleKeyup, timers, debounceTimer, inflight>>

\* Element ids are strings of characters.  NoList: the input has no list
\* attribute (or an empty one), the widget holds no list reference.
NoList == << >>
\* A list among the widget's descendants, one elsewhere in the document, one
\* whose id starts with a digit, and an id no element has.
ExistingListId == <<"m", "y", "-", "l", "i", "s", "t">>
OuterListId == <<"o", "u", "t", "e", "r">>
DigitListId == <<"1", "s", "t">>
DanglingListId == <<"g", "o", "n", "e">>
\* The ids the widget generates, dynamic-datalist-<time>-<random>, shortened
\* to d-1, d-2, d-3.
GeneratedIds == <<<<"d", "-", "1">>, <<"d", "-", "2">>, <<"d", "-", "3">>>>

Option(value, text) == [value |-> value, text |-> text]

\* The entries of the list the page already holds.
ExistingEntries == <<Option(S_a, S_b)>>

\* What a step did: the warnings logged, the events dispatched, the fetch
\* calls made, how many pending timeouts it cancelled, and whether the
\* response it handled belongs to a request issued before one whose options
\* are already in the list, and whether the __fetchOptions call it completed
\* ended with its promise rejected.
Out(op, key, warns, events, fetch) ==
    [op |-> op, key |-> key, warns |-> warns, events |-> events, fetch |-> fetch,
     cancelled |-> 0, stale |-> FALSE, rejected |-> FALSE]

\* The entries of the bound list (none while no list is bound).
BoundEntries(ls, dl) == IF dl \in DOMAIN ls THEN ls[dl] ELSE << >>

\* Fault: the event's detail is built from the extra fields alone, its
\* input and datalist left unresolved.
EmitEvent_ExtrasOnly(type, inp, dl, ls, options, error) ==
    [options |-> options, error |-> error]
        @@ [input |-> FALSE, datalist |-> NoList]
        @@ [type |-> type, seen |-> BoundEntries(ls, dl)]

\* __emitEvent(type, detail): the detail is { input, datalist, ...detail }, so
\* a field of the extra ones wins over a reference of the same name (the
\* left operand of @@ wins); the callers' extra fields are options and error.
\* `seen` is the bound list's entries when the event is dispatched.
EmitEvent(type, inp, dl, ls, options, error) ==
    [options |-> options, error |-> error]
        @@ [input |-> inp, datalist |-> dl]
        @@ [type |-> type, seen |-> BoundEntries(ls, dl)]

NoError == "none"

\* Values the model's page types into the input.
InputValues == {S_empty, S_a, S_b}

\* Values the page gives the three attributes while the widget runs.
ConfigValues(name) ==
    CASE name = "endpoint" -> {JsNull, JsString(S_api)}
      [] name = "method" -> {JsUndefined, JsString(S_POST), JsString(S_put)}
      [] OTHER -> {JsNull, JsString(S_k)}

NoOwn == [n \in AttrNames |-> Absent]

Init ==
    /\ attrs \in {[endpoint |-> e, method |-> m, key |-> k] :
                    e \in {Null, S_api}, m \in {Null, S_POST}, k \in {Null}}
    /\ own = NoOwn
    /\ connected = FALSE
    /\ pendingInit = 0
    /\ hasInputChild \in BOOLEAN
    /\ inputValue = S_empty
    /\ inputList \in {NoList, ExistingListId}
    /\ lists = (ExistingListId :> ExistingEntries)
    /\ input = FALSE
    /\ datalist = NoList
    /\ listeners = {}
    /\ boundHandleKeyup = 0
    /\ timers = {}
    /\ debounceTimer = 0
    /\ inflight = << >>
    /\ out = Out("create", 0, << >>, << >>, << >>)

\* --------------------------------------------------------------- lifecycle

\* connectedCallback(), its synchronous part: the three _upgradeProperty calls.
UpgradeProperties(st) ==
    UpgradeProperty(UpgradeProperty(UpgradeProperty(st, "endpoint"), "method"), "key")

\* The page attaches the element: connectedCallback() upgrades the properties
\* and queues the initialization microtask.
Attach ==
    /\ ~connected
    /\ Cardinality(listeners) + pendingInit < MaxListeners
    /\ connected' = TRUE
    /\ LET st == UpgradeProperties([attrs |-> attrs, own |-> own])
       IN  attrs' = st.attrs /\ own' = st.own
    /\ pendingInit' = pendingInit + 1
    /\ out' = Out("attach", 0, << >>, << >>, << >>)
    /\ UNCHANGED <<hasInputChild, inputValue, inputList, lists, input, datalist,
                   listeners, boundHandleKeyup, timers, debounceTimer, inflight>>

\* disconnectedCallback(): the listeners left on the input
DisconnectedCallback(ls, inp, bound) ==
    IF inp THEN ls \ {bound} ELSE ls

\* The page detaches the element.
Detach ==
    /\ connected
    /\ connected' = FALSE
    /\ listeners' = DisconnectedCallback(listeners, input, boundHandleKeyup)
    /\ out' = Out("detach", 0, << >>, << >>, << >>)
    /\ UNCHANGED <<attrs, own, pendingInit, hasInputChild, inputValue, inputList,
                   lists, input, datalist, boundHandleKeyup, timers,
                   debounceTimer, inflight>>

AllowedMethods == {S_get, S_post}

W_NoInput == "No input element found"
W_NoEndpoint == "No endpoint attribute specified"
W_InvalidMethod == "Invalid method"
W_FetchFailed == "Failed to fetch options"

\* Fault: a method that is not allowed aborts the initialization.
ValidateAttributes_RejectsMethod(as) ==
    IF ~Truthy(EndpointOf(as))
    THEN [ok |-> FALSE, warns |-> <<W_NoEndpoint>>]
    ELSE IF ToLowerCase(MethodOf(as)) \in AllowedMethods
    THEN [ok |-> TRUE, warns |-> << >>]
    ELSE [ok |-> FALSE, warns |-> <<W_InvalidMethod>>]

\* Fault: a missing endpoint is warned about and initialization goes on.
ValidateAttributes_WarnsOnly(as) ==
    [ok |-> TRUE,
     warns |-> IF ~Truthy(EndpointOf(as)) THEN <<W_NoEndpoint>> ELSE << >>]

\* __validateAttributes(): [ok, warns]
ValidateAttributes(as) ==
    IF ~Truthy(EndpointOf(as))
    THEN [ok |-> FALSE, warns |-> <<W_NoEndpoint>>]
    ELSE [ok |-> TRUE,
          warns |-> IF ToLowerCase(MethodOf(as)) \in AllowedMethods
                    THEN << >> ELSE <<W_InvalidMethod>>]

\* The identifier of the next list the widget creates.
NewListId(ls) ==
    GeneratedIds[1 + Cardinality({i \in DOMAIN GeneratedIds : GeneratedIds[i] \in DOMAIN ls})]

\* Characters of an id that need no escaping in a selector.
IdentChars == Letters \cup {DigitChars[i] : i \in DOMAIN DigitChars} \cup {"-", "_"}

IsDigit(c) == \E i \in DOMAIN DigitChars : DigitChars[i] = c

\* `#${id}` parses as an id selector (ids over letters, digits, - and _): the
\* id is an identifier, which starts with no digit, nor with a hyphen
\* followed by a digit or by nothing.
ValidIdSelector(id) ==
    /\ id # << >>
    /\ \A i \in DOMAIN id : id[i] \in IdentChars
    /\ ~IsDigit(id[1])
    /\ id[1] = "-" => (Len(id) > 1 /\ ~IsDigit(id[2]))

\* The lists among the widget's descendants: every list but the one elsewhere
\* in the document (the lists the widget creates are appended to it).
Descendants(ls) == DOMAIN ls \ {OuterListId}

\* this.querySelector(`#${id}`): [threw, found]; an invalid selector throws.
QuerySelectorId(ls, id) ==
    IF ~ValidIdSelector(id) THEN [threw |-> TRUE, found |-> NoList]
    ELSE [threw |-> FALSE,
          found |-> IF id \in Descendants(ls) THEN id ELSE NoList]

\* document.getElementById(id), NoList when no element has the id
GetElementById(ls, id) == IF id \in DOMAIN ls THEN id ELSE NoList

\* Fault: the list reference the widget already holds is ignored, so every
\* initialization of an input without a list of the page's creates a list.
CreateOrFindDatalist_AlwaysCreates(st) ==
    LET id == NewListId(st.lists)
    IN  [datalist |-> id, inputList |-> id,
         lists |-> (id :> << >>) @@ st.lists, threw |-> FALSE]

\* __createOrFindDatalist() on [datalist, inputList, lists]: the three
\* afterwards and whether the call threw.
CreateOrFindDatalist(st) ==
    LET existingListId == st.inputList
        q == QuerySelectorId(st.lists, existingListId)
        found == IF st.datalist # NoList THEN st.datalist
                 ELSE IF q.found # NoList THEN q.found
                 ELSE GetElementById(st.lists, existingListId)
        created == LET id == NewListId(st.lists)
                   IN  [datalist |-> id, inputList |-> id,
                        lists |-> (id :> << >>) @@ st.lists, threw |-> FALSE]
    IN  IF existingListId # NoList
        THEN IF st.datalist = NoList /\ q.threw
             THEN [datalist |-> st.datalist, inputList |-> st.inputList,
                   lists |-> st.lists, threw |-> TRUE]
             ELSE IF found # NoList
             THEN [datalist |-> found, inputList |-> st.inputList,
                   lists |-> st.lists, threw |-> FALSE]
             ELSE created
        ELSE created

\* The handler identifier a new bind() yields: one no registered listener has.
NewHandler(ls) ==
    CHOOSE n \in 1..(MaxListeners + 1) :
        /\ n \notin ls
        /\ \A m \in 1..(n - 1) : m \in ls

\* Fault: the handler is bound and never registered.
AddObservers_Skipped(ls, inp) == ls

\* __addObservers(): the listeners on the input afterwards
AddObservers(ls, inp) == IF inp THEN ls \cup {NewHandler(ls)} ELSE ls

\* Fault: the input is taken to exist without looking for it.
ResolveInput_Assumed(inp, hasChild) == TRUE

\* if (!this.__$input) this.__$input = this.querySelector('input'): whether
\* the widget holds an input afterwards.
ResolveInput(inp, hasChild) == inp \/ hasChild

\* The microtask connectedCallback queued: resolve the input, then __init().
\* An exception of __createOrFindDatalist ends the microtask (op "throw").
InitStep ==
    /\ pendingInit > 0
    /\ pendingInit' = pendingInit - 1
    /\ input' = ResolveInput(input, hasInputChild)
    /\ IF ~input'
       THEN /\ out' = Out("init", 0, <<W_NoInput>>, << >>, << >>)
            /\ UNCHANGED <<inputList, lists, datalist, listeners, boundHandleKeyup>>
       ELSE LET v == ValidateAttributes(attrs)
            IN  IF ~v.ok
                THEN /\ out' = Out("init", 0, v.warns, << >>, << >>)
                     /\ UNCHANGED <<inputList, lists, datalist, listeners,
                                    boundHandleKeyup>>
                ELSE LET st == CreateOrFindDatalist(
                                  [datalist |-> datalist, inputList |-> inputList,
                                   lists |-> lists])
                     IN  IF st.threw
                         THEN /\ out' = Out("throw", 0, v.warns, << >>, << >>)
                              /\ UNCHANGED <<inputList, lists, datalist,
                                             listeners, boundHandleKeyup>>
                         ELSE /\ datalist' = st.datalist
                              /\ inputList' = st.inputList
                              /\ lists' = st.lists
                              /\ boundHandleKeyup' = NewHandler(listeners)
                              /\ listeners' = AddObservers(listeners, input')
                              /\ out' = Out("init", 0, v.warns,
                                            <<EmitEvent("ready", input', st.datalist,
                                                        st.lists, << >>, NoError)>>,
                                            << >>)
    /\ UNCHANGED <<attrs, own, connected, hasInputChild, inputValue, timers,
                   debounceTimer, inflight>>

\* ------------------------------------------------------------- fetch cycle

\* Fault: the enter key is not among the ignored keys.
IgnoredKeys_NoEnter == {38, 40, 9}

\* Key codes __handleKeyup ignores: up, down, tab, enter.
IgnoredKeys == {38, 40, 9, 13}

\* The which and keyCode fields of the events the model dispatches.
Whichs == {0, 13, 65}
KeyCodes == {0, 9, 38, 40, 65}

\* e.which || e.keyCode
EventKey(which, keyCode) == IF which # 0 THEN which ELSE keyCode

\* Fault: the pending timeout is not cancelled.
ClearTimeout_Skipped(ts, id) == ts

\* clearTimeout(id)
ClearTimeout(ts, id) == {t \in ts : t.id # id}

\* The identifier setTimeout returns: one that no pending timeout has and
\* that differs from the identifier the widget still holds.
NewTimerId(ts, held) ==
    LET used == {t.id : t \in ts} \cup {held}
    IN  CHOOSE n \in 1..(MaxTimers + MaxListeners + 2) :
            /\ n \notin used
            /\ \A m \in 1..(n - 1) : m \in used

\* Fault: no debounce, every keyup schedules a timeout of its own.
HandleKeyup_NoDebounce(st, key, value) ==
    IF key \in IgnoredKeys \/ ~Truthy(value) THEN st
    ELSE LET id == NewTimerId(st.timers, st.debounceTimer)
         IN  [timers |-> st.timers \cup {[id |-> id, value |-> value]},
              debounceTimer |-> id]

\* Fault: an empty value returns before the pending timeout is cancelled.
HandleKeyup_ChecksValueFirst(st, key, value) ==
    IF key \in IgnoredKeys \/ ~Truthy(value) THEN st
    ELSE LET cleared == ClearTimeout(st.timers, st.debounceTimer)
             id == NewTimerId(cleared, st.debounceTimer)
         IN  [timers |-> cleared \cup {[id |-> id, value |-> value]},
              debounceTimer |-> id]

\* __handleKeyup(e) on [timers, debounceTimer], value the input's value
HandleKeyup(st, key, value) ==
    IF key \in IgnoredKeys THEN st
    ELSE LET cleared == ClearTimeout(st.timers, st.debounceTimer)
         IN  IF Truthy(value)
             THEN LET id == NewTimerId(cleared, st.debounceTimer)
                  IN  [timers |-> cleared \cup {[id |-> id, value |-> value]},
                       debounceTimer |-> id]
             ELSE [timers |-> cleared, debounceTimer |-> st.debounceTimer]

\* The event reaches every listener registered on the input, one after another.
RECURSIVE DispatchKeyup(_, _, _, _)
DispatchKeyup(n, st, key, value) ==
    IF n = 0 THEN st
    ELSE DispatchKeyup(n - 1, HandleKeyup(st, key, value), key, value)

\* A keyup event on the input.
Keyup(which, keyCode) ==
    /\ hasInputChild \/ input
    /\ Cardinality(timers) < MaxTimers
    /\ LET key == EventKey(which, keyCode)
           st == DispatchKeyup(Cardinality(listeners),
                               [timers |-> timers, debounceTimer |-> debounceTimer],
                               key, inputValue)
       IN  /\ timers' = st.timers
           /\ debounceTimer' = st.debounceTimer
           /\ out' = [Out("keyup", key, << >>, << >>, << >>)
                          EXCEPT !.cancelled = Cardinality(timers \ st.timers)]
    /\ UNCHANGED <<attrs, own, connected, pendingInit, hasInputChild, inputValue,
                   inputList, lists, input, datalist, listeners,
                   boundHandleKeyup, inflight>>

\* The page or the user changes the input's value.
SetValue(v) ==
    /\ hasInputChild \/ input
    /\ v # inputValue
    /\ inputValue' = v
    /\ out' = Out("value", 0, << >>, << >>, << >>)
    /\ UNCHANGED <<attrs, own, connected, pendingInit, hasInputChild, inputList,
                   lists, input, datalist, listeners, boundHandleKeyup, timers,
                   debounceTimer, inflight>>

\* Fault: the callback reads the input again when it runs.
TimerQuery_ReadsInput(t, current) == current

\* The query the timeout scheduled by __handleKeyup passes to __fetchOptions:
\* the value the handler read, captured by the callback.
TimerQuery(t, current) == t.value

\* A pending timeout elapses: __fetchOptions(value) runs up to its await fetch.
TimerFires(t) ==
    /\ t \in timers
    /\ pendingInit = 0
    /\ Len(inflight) < MaxInflight
    /\ timers' = timers \ {t}
    /\ inflight' = Append(inflight, [phase |-> "fetch",
                                     before |-> BoundEntries(lists, datalist),
                                     overtaken |-> FALSE])
    /\ out' = Out("timer", 0, << >>, << >>,
                  <<FetchCall(attrs, TimerQuery(t, inputValue))>>)
    /\ UNCHANGED <<attrs, own, connected, pendingInit, hasInputChild, inputValue,
                   inputList, lists, input, datalist, listeners,
                   boundHandleKeyup, debounceTimer>>

RemoveAt(s, i) == SubSeq(s, 1, i - 1) \o SubSeq(s, i + 1, Len(s))

\* Fault: a failed request empties the bound list.
OnFailure_ClearsList(ls, inp, dl, error) ==
    LET cleared == IF dl \in DOMAIN ls THEN [ls EXCEPT ![dl] = << >>] ELSE ls
    IN  [lists |-> cleared, warns |-> <<W_FetchFailed>>,
         events |-> <<EmitEvent("error", inp, dl, cleared, << >>, error)>>,
         rejected |-> FALSE]

\* Fault: the catch block throws the error again once it has reported it.
OnFailure_Rethrows(ls, inp, dl, error) ==
    [lists |-> ls, warns |-> <<W_FetchFailed>>,
     events |-> <<EmitEvent("error", inp, dl, ls, << >>, error)>>,
     rejected |-> TRUE]

\* The catch block of __fetchOptions: [lists, warns, events, rejected]; it
\* throws nothing, so the call's promise is fulfilled.
OnFailure(ls, inp, dl, error) ==
    [lists |-> ls, warns |-> <<W_FetchFailed>>,
     events |-> <<EmitEvent("error", inp, dl, ls, << >>, error)>>,
     rejected |-> FALSE]

\* Fault: a request that fails is issued again.
FetchSettles_Retries(i, outcome) ==
    /\ i \in DOMAIN inflight
    /\ inflight[i].phase = "fetch"
    /\ pendingInit = 0
    /\ IF outcome = "ok"
       THEN /\ inflight' = [inflight EXCEPT ![i].phase = "json"]
            /\ out' = Out("response", 0, << >>, << >>, << >>)
            /\ UNCHANGED lists
       ELSE LET r == OnFailure(lists, input, datalist, outcome)
            IN  /\ inflight' = inflight
                /\ lists' = r.lists
                /\ out' = [Out("response", 0, r.warns, r.events,
                               <<FetchCall(attrs, inputValue)>>)
                               EXCEPT !.rejected = r.rejected]
    /\ UNCHANGED <<attrs, own, connected, pendingInit, hasInputChild, inputValue,
                   inputList, input, datalist, listeners, boundHandleKeyup,
                   timers, debounceTimer>>

\* await fetch(...) settles: rejected, resolved with a status that is not ok,
\* or resolved ok, after which response.json() is awaited.
FetchSettles(i, outcome) ==
    /\ i \in DOMAIN inflight
    /\ inflight[i].phase = "fetch"
    /\ pendingInit = 0
    /\ IF outcome = "ok"
       THEN /\ inflight' = [inflight EXCEPT ![i].phase = "json"]
            /\ out' = Out("response", 0, << >>, << >>, << >>)
            /\ UNCHANGED lists
       ELSE LET r == OnFailure(lists, input, datalist, outcome)
            IN  /\ inflight' = RemoveAt(inflight, i)
                /\ lists' = r.lists
                /\ out' = [Out("response", 0, r.warns, r.events, << >>)
                               EXCEPT !.rejected = r.rejected]
    /\ UNCHANGED <<attrs, own, connected, pendingInit, hasInputChild, inputValue,
                   inputList, input, datalist, listeners, boundHandleKeyup,
                   timers, debounceTimer>>

\* Longest options array a response of the model carries.
MaxOptions == 2

RECURSIVE SeqsUpTo(_, _)
SeqsUpTo(S, n) ==
    IF n = 0 THEN {<< >>}
    ELSE LET shorter == SeqsUpTo(S, n - 1)
         IN  shorter \cup {Append(q, x) : q \in shorter, x \in S}

OptionArrays == SeqsUpTo({S_a, S_b}, MaxOptions)

\* Decoded response bodies: null, a scalar, or an object whose options field
\* is absent, falsy, truthy but no array, or an array of strings.
Body(kind, opt, arr) == [kind |-> kind, opt |-> opt, arr |-> arr]

Bodies ==
    {Body("null", "absent", << >>), Body("scalar", "absent", << >>)}
        \cup {Body("object", o, << >>) : o \in {"absent", "falsy", "nonarray"}}
        \cup {Body("object", "array", a) : a \in OptionArrays}

\* Fault: the options are appended to the entries the list already has.
UpdateDatalist_Appends(ls, dl, options) ==
    IF dl = NoList THEN ls
    ELSE [ls EXCEPT ![dl] = @ \o [i \in DOMAIN options |->
                                     Option(options[i], options[i])]]

\* __updateDatalist(options): the lists afterwards
UpdateDatalist(ls, dl, options) ==
    IF dl = NoList THEN ls
    ELSE [ls EXCEPT ![dl] = [i \in DOMAIN options |->
                                Option(options[i], options[i])]]

\* Fault: the update branch falls through to the failure report, so the
\* request that updated the list is also reported as failed.
OnOptions_AlsoFails(ls, inp, dl, options) ==
    LET updated == UpdateDatalist(ls, dl, options)
    IN  [lists |-> updated, warns |-> <<W_FetchFailed>>,
         events |-> <<EmitEvent("update", inp, dl, updated, options, NoError),
                      EmitEvent("error", inp, dl, updated, << >>, "type")>>,
         rejected |-> FALSE]

\* The update branch of __fetchOptions: replace the list, then emit 'update'.
OnOptions(ls, inp, dl, options) ==
    LET updated == UpdateDatalist(ls, dl, options)
    IN  [lists |-> updated, warns |-> << >>,
         events |-> <<EmitEvent("update", inp, dl, updated, options, NoError)>>,
         rejected |-> FALSE]

\* __fetchOptions after response.json() resolved with data
OnData(ls, inp, dl, data) ==
    IF data.kind = "null" THEN OnFailure(ls, inp, dl, "type")
    ELSE IF data.kind = "object" /\ data.opt = "array"
    THEN OnOptions(ls, inp, dl, data.arr)
    ELSE [lists |-> ls, warns |-> << >>, events |-> << >>, rejected |-> FALSE]

\* Fault: the response of a request is dropped when a request issued later
\* has already updated the list.
ApplyResponse_DropsStale(req, ls, inp, dl, data) ==
    IF req.overtaken
    THEN [lists |-> ls, warns |-> << >>, events |-> << >>, rejected |-> FALSE]
    ELSE OnData(ls, inp, dl, data)

\* The decoded body of request req is handled whatever has happened since
\* the request was issued: __fetchOptions keeps no record of its calls.
ApplyResponse(req, ls, inp, dl, data) == OnData(ls, inp, dl, data)

\* The calls still in flight once call i has updated the list: those issued
\* before it are overtaken.
Overtake(s, i) ==
    RemoveAt([j \in DOMAIN s |-> IF j < i THEN [s[j] EXCEPT !.overtaken = TRUE]
                                 ELSE s[j]], i)

\* await response.json() settles: rejected (the body does not decode), or data
JsonSettles(i, decoded, data) ==
    /\ i \in DOMAIN inflight
    /\ inflight[i].phase = "json"
    /\ pendingInit = 0
    /\ LET r == IF decoded
                THEN ApplyResponse(inflight[i], lists, input, datalist, data)
                ELSE OnFailure(lists, input, datalist, "parse")
           updates == \E k \in DOMAIN r.events : r.events[k].type = "update"
       IN  /\ lists' = r.lists
           /\ out' = [Out(IF decoded THEN "data" ELSE "response", 0,
                          r.warns, r.events, << >>)
                          EXCEPT !.stale = inflight[i].overtaken,
                                 !.rejected = r.rejected]
           /\ inflight' = IF updates THEN Overtake(inflight, i)
                          ELSE RemoveAt(inflight, i)
    /\ UNCHANGED <<attrs, own, connected, pendingInit, hasInputChild, inputValue,
                   inputList, input, datalist, listeners, boundHandleKeyup,
                   timers, debounceTimer>>

\* The page inserts an input among the widget's descendants.
InsertInput ==
    /\ ~hasInputChild
    /\ hasInputChild' = TRUE
    /\ out' = Out("insert", 0, << >>, << >>, << >>)
    /\ UNCHANGED <<attrs, own, connected, pendingInit, inputValue, inputList,
                   lists, input, datalist, listeners, boundHandleKeyup, timers,
                   debounceTimer, inflight>>

\* The page assigns element[name] = v (the accessor's setter runs).
SetProperty(name, v) ==
    /\ own[name] = Absent
    /\ attrs' = PropertySetter(attrs, name, v)
    /\ out' = Out("set", 0, << >>, << >>, << >>)
    /\ UNCHANGED <<own, connected, pendingInit, hasInputChild, inputValue,
                   inputList, lists, input, datalist, listeners,
                   boundHandleKeyup, timers, debounceTimer, inflight>>

\* Every step the page, the timer queue and the network can take.
Next ==
    \/ Attach
    \/ Detach
    \/ InitStep
    \/ \E w \in Whichs, c \in KeyCodes : Keyup(w, c)
    \/ \E v \in InputValues : SetValue(v)
    \/ \E t \in timers : TimerFires(t)
    \/ \E i \in 1..MaxInflight, o \in {"network", "http", "ok"} : FetchSettles(i, o)
    \/ \E i \in 1..MaxInflight : JsonSettles(i, FALSE, Body("null", "absent", << >>))
    \/ \E i \in 1..MaxInflight, d \in Bodies : JsonSettles(i, TRUE, d)
    \/ \E n \in AttrNames : \E v \in ConfigValues(n) : SetProperty(n, v)

Spec == Init /\ [][Next]_vars

\* The fetch cycle under every lifecycle interleaving: all keyup events and
\* input values, the configuration left alone, every request failing in
\* transport (the steps that settle a request never touch a timer).
NextCycle ==
    \/ Attach
    \/ Detach
    \/ InitStep
    \/ \E w \in Whichs, c \in KeyCodes : Keyup(w, c)
    \/ \E v \in InputValues : SetValue(v)
    \/ \E t \in timers : TimerFires(t)
    \/ \E i \in 1..MaxInflight : FetchSettles(i, "network")

SpecCycle == Init /\ [][NextCycle]_vars

\* Responses of every kind to the requests of a widget that is attached
\* once: one keyup event and one input value drive the requests.
NextResponse ==
    \/ Attach
    \/ InitStep
    \/ Keyup(65, 0)
    \/ SetValue(S_a)
    \/ \E t \in timers : TimerFires(t)
    \/ \E i \in 1..MaxInflight, o \in {"network", "http", "ok"} : FetchSettles(i, o)
    \/ \E i \in 1..MaxInflight : JsonSettles(i, FALSE, Body("null", "absent", << >>))
    \/ \E i \in 1..MaxInflight, d \in Bodies : JsonSettles(i, TRUE, d)

SpecResponse == Init /\ [][NextResponse]_vars

\* Strings with characters the encoders rewrite.
S_a_b == <<"a", " ", "b">>
S_amp == <<"x", "&", "y", "=", "z">>
S_quote == <<"\"", "\\", "a">>
S_apiq == <<"/", "x", "?", "y">>

RequestEndpoints == {S_api, S_apiq}
RequestMethods == {Null, S_empty, S_get, S_post, S_POST, S_Post, S_put}
RequestKeys == {Null, S_empty, S_k, S_amp}
RequestValues == {S_a, S_a_b, S_amp, S_quote}

\* An initialized, attached widget one keyup after the page typed a value,
\* under every configuration of the request sets.
InitRequest ==
    /\ attrs \in {[endpoint |-> e, method |-> m, key |-> k] :
                    e \in RequestEndpoints, m \in RequestMethods, k \in RequestKeys}
    /\ own = NoOwn
    /\ connected = TRUE
    /\ pendingInit = 0
    /\ hasInputChild = TRUE
    /\ inputValue \in RequestValues
    /\ inputList = GeneratedIds[1]
    /\ lists = (GeneratedIds[1] :> << >>)
    /\ input = TRUE
    /\ datalist = GeneratedIds[1]
    /\ listeners = {1}
    /\ boundHandleKeyup = 1
    /\ timers = {[id |-> 1, value |-> inputValue]}
    /\ debounceTimer = 1
    /\ inflight = << >>
    /\ out = Out("keyup", 65, << >>, << >>, << >>)

\* The requests the widget builds: the timer elapses, the request fails, the
\* next keyup schedules the next one.
NextRequest ==
    \/ \E t \in timers : TimerFires(t)
    \/ \E i \in 1..MaxInflight : FetchSettles(i, "network")
    \/ Keyup(65, 0)

SpecRequest == InitRequest /\ [][NextRequest]_vars

\* Values the page assigns to the three properties.
ReflectValues ==
    {JsNull, JsUndefined, JsString(S_empty), JsString(S_post), JsString(S_k),
     JsNumber(0), JsNumber(42), JsBoolean(FALSE)}

\* Property reflection: the page assigns any of the values to any property.
NextReflect ==
    \E n \in AttrNames : \E v \in ReflectValues : SetProperty(n, v)

SpecReflect == Init /\ [][NextReflect]_vars

\* Values the page assigns to a property before the element is upgraded (they
\* become own instance fields), Absent when it assigns none.
PreUpgradeValues ==
    {Absent, JsString(S_api), JsString(S_POST), JsString(S_empty), JsNull,
     JsNumber(42)}

\* An element created before its class was defined: the page has assigned
\* any subset of the three properties, the markup may carry an endpoint.
InitUpgrade ==
    /\ attrs \in {[endpoint |-> e, method |-> Null, key |-> Null] :
                    e \in {Null, S_api}}
    /\ own \in [AttrNames -> PreUpgradeValues]
    /\ connected = FALSE
    /\ pendingInit = 0
    /\ hasInputChild = TRUE
    /\ inputValue = S_empty
    /\ inputList = NoList
    /\ lists = (ExistingListId :> ExistingEntries)
    /\ input = FALSE
    /\ datalist = NoList
    /\ listeners = {}
    /\ boundHandleKeyup = 0
    /\ timers = {}
    /\ debounceTimer = 0
    /\ inflight = << >>
    /\ out = Out("create", 0, << >>, << >>, << >>)

\* The lifecycle of such an element.
NextUpgrade ==
    \/ Attach
    \/ Detach
    \/ InitStep

SpecUpgrade == InitUpgrade /\ [][NextUpgrade]_vars

\* The pages the list binder meets: the input declares no list, a list among
\* the widget's descendants, one elsewhere in the document, one whose id
\* starts with a digit, or an id no element has.
InitLists ==
    /\ attrs \in {[endpoint |-> e, method |-> Null, key |-> Null] :
                    e \in {Null, S_empty, S_api}}
    /\ own = NoOwn
    /\ connected = FALSE
    /\ pendingInit = 0
    /\ hasInputChild \in BOOLEAN
    /\ inputValue \in {S_empty, S_a}
    /\ inputList \in {NoList, ExistingListId, OuterListId, DigitListId,
                      DanglingListId}
    /\ lists = [id \in {ExistingListId, OuterListId, DigitListId} |-> ExistingEntries]
    /\ input = FALSE
    /\ datalist = NoList
    /\ listeners = {}
    /\ boundHandleKeyup = 0
    /\ timers = {}
    /\ debounceTimer = 0
    /\ inflight = << >>
    /\ out = Out("create", 0, << >>, << >>, << >>)

\* Initialization and the requests that follow it, over attach and detach.
NextLists ==
    \/ Attach
    \/ Detach
    \/ InitStep
    \/ Keyup(65, 0)
    \/ \E t \in timers : TimerFires(t)
    \/ \E i \in 1..MaxInflight : FetchSettles(i, "network")

SpecLists == InitLists /\ [][NextLists]_vars

\* Values the page gives the three properties while a timer is pending.
ConfigChangeValues(name) ==
    CASE name = "endpoint" -> {JsNull, JsString(S_api), JsString(S_apiq)}
      [] name = "method" ->
            {JsUndefined, JsString(S_get), JsString(S_POST), JsString(S_put)}
      [] OTHER -> {JsNull, JsString(S_k), JsString(S_amp)}

\* An initialized, attached widget configured with an endpoint only, one
\* keyup after the page typed a value: the timer is pending.
InitConfig ==
    /\ attrs = [endpoint |-> S_api, method |-> Null, key |-> Null]
    /\ own = NoOwn
    /\ connected = TRUE
    /\ pendingInit = 0
    /\ hasInputChild = TRUE
    /\ inputValue \in {S_a, S_amp}
    /\ inputList = GeneratedIds[1]
    /\ lists = (GeneratedIds[1] :> << >>)
    /\ input = TRUE
    /\ datalist = GeneratedIds[1]
    /\ listeners = {1}
    /\ boundHandleKeyup = 1
    /\ timers = {[id |-> 1, value |-> inputValue]}
    /\ debounceTimer = 1
    /\ inflight = << >>
    /\ out = Out("keyup", 65, << >>, << >>, << >>)

\* The page changes the configuration while the timer is pending (and
\* after); the timer elapses; the request fails.  No keyup follows, so the
\* timer that elapses was scheduled under the initial configuration.
NextConfig ==
    \/ \E n \in AttrNames : \E v \in ConfigChangeValues(n) : SetProperty(n, v)
    \/ \E t \in timers : TimerFires(t)
    \/ \E i \in 1..MaxInflight : FetchSettles(i, "network")

SpecConfig == InitConfig /\ [][NextConfig]_vars

\* A widget that may lack its input, its endpoint or both when it is first
\* attached; the page can supply them later, detach and re-attach.
InitInert ==
    /\ attrs \in {[endpoint |-> e, method |-> Null, key |-> Null] :
                    e \in {Null, S_api}}
    /\ own = NoOwn
    /\ connected = FALSE
    /\ pendingInit = 0
    /\ hasInputChild \in BOOLEAN
    /\ inputValue = S_a
    /\ inputList = NoList
    /\ lists = (ExistingListId :> ExistingEntries)
    /\ input = FALSE
    /\ datalist = NoList
    /\ listeners = {}
    /\ boundHandleKeyup = 0
    /\ timers = {}
    /\ debounceTimer = 0
    /\ inflight = << >>
    /\ out = Out("create", 0, << >>, << >>, << >>)

\* The page lets a queued initialization run before it attaches again.
NextInert ==
    \/ (pendingInit = 0 /\ Attach)
    \/ Detach
    \/ InitStep
    \/ InsertInput
    \/ \E v \in {JsNull, JsString(S_empty), JsString(S_api)} : SetProperty("endpoint", v)
    \/ Keyup(65, 0)
    \/ \E t \in timers : TimerFires(t)
    \/ \E i \in 1..MaxInflight : FetchSettles(i, "network")

SpecInert == InitInert /\ [][NextInert]_vars

\* The list binder's pages with requests that succeed, fail or do not
\* decode, over attach and detach.
NextBound ==
    \/ Attach
    \/ Detach
    \/ InitStep
    \/ Keyup(65, 0)
    \/ \E t \in timers : TimerFires(t)
    \/ \E i \in 1..MaxInflight, o \in {"network", "ok"} : FetchSettles(i, o)
    \/ \E i \in 1..MaxInflight : JsonSettles(i, FALSE, Body("null", "absent", << >>))
    \/ \E i \in 1..MaxInflight : JsonSettles(i, TRUE, Body("object", "array", <<S_b>>))

SpecBound == InitLists /\ [][NextBound]_vars

\* What the bound list may hold before an update: up to two entries whose
\* text equals or differs from their value.
PriorEntries ==
    SeqsUpTo({Option(S_a, S_a), Option(S_a, S_b), Option(S_b, S_b)}, 2)

\* A widget about to adopt a list of its own with any prior content.
InitUpdate ==
    /\ attrs = [endpoint |-> S_api, method |-> Null, key |-> Null]
    /\ own = NoOwn
    /\ connected = FALSE
    /\ pendingInit = 0
    /\ hasInputChild = TRUE
    /\ inputValue = S_a
    /\ inputList = ExistingListId
    /\ lists \in {(ExistingListId :> prior) : prior \in PriorEntries}
    /\ input = FALSE
    /\ datalist = NoList
    /\ listeners = {}
    /\ boundHandleKeyup = 0
    /\ timers = {}
    /\ debounceTimer = 0
    /\ inflight = << >>
    /\ out = Out("create", 0, << >>, << >>, << >>)

\* Requests answered with option arrays of every kind.
NextUpdate ==
    \/ Attach
    \/ InitStep
    \/ Keyup(65, 0)
    \/ \E t \in timers : TimerFires(t)
    \/ \E i \in 1..MaxInflight : FetchSettles(i, "ok")
    \/ \E i \in 1..MaxInflight, a \in OptionArrays :
          JsonSettles(i, TRUE, Body("object", "array", a))

SpecUpdate == InitUpdate /\ [][NextUpdate]_vars

S_GET == <<"G", "E", "T">>
S_PUT == <<"P", "U", "T">>
S_gets == <<"g", "e", "t", "s">>

\* A widget with an input, an endpoint and a method attribute of any kind:
\* absent, empty, get or post in some case, or none of them.
InitMethod ==
    /\ attrs \in {[endpoint |-> S_api, method |-> m, key |-> Null] :
                    m \in {Null, S_empty, S_get, S_GET, S_Post, S_put, S_PUT,
                           S_gets}}
    /\ own = NoOwn
    /\ connected = FALSE
    /\ pendingInit = 0
    /\ hasInputChild = TRUE
    /\ inputValue = S_a
    /\ inputList \in {NoList, ExistingListId}
    /\ lists = (ExistingListId :> ExistingEntries)
    /\ input = FALSE
    /\ datalist = NoList
    /\ listeners = {}
    /\ boundHandleKeyup = 0
    /\ timers = {}
    /\ debounceTimer = 0
    /\ inflight = << >>
    /\ out = Out("create", 0, << >>, << >>, << >>)

NextMethod ==
    \/ (pendingInit = 0 /\ Attach)
    \/ Detach
    \/ InitStep
    \/ Keyup(65, 0)
    \/ \E t \in timers : TimerFires(t)
    \/ \E i \in 1..MaxInflight : FetchSettles(i, "network")

SpecMethod == InitMethod /\ [][NextMethod]_vars

\* ------------------------------------------------------------------ claims

\* A keyup the handler acts on: its key code is none of tab, enter, up, down.
ActsOn(w, c) == EventKey(w, c) \notin {9, 13, 38, 40}

\* C1: on a widget that initialized successfully (its keyup listener is on the
\* input), every keyup of a burst of qualifying keyups (key code not 9, 13, 38
\* or 40, input value non-empty) leaves exactly one timer pending and issues no
\* request; the timer elapsing issues exactly one request and leaves no timer
\* pending; no other step touches the timers or issues a request.  So a burst
\* followed by the quiet period issues exactly one request.
C1_OneRequestPerBurst ==
    [][/\ \A w \in Whichs, c \in KeyCodes :
            (Keyup(w, c) /\ ActsOn(w, c) /\ inputValue # << >> /\ listeners # {})
                => /\ Cardinality(timers') = 1
                   /\ out'.fetch = << >>
                   /\ inflight' = inflight
       /\ \A t \in timers :
            TimerFires(t) => /\ timers' = {}
                             /\ Len(out'.fetch) = 1
                             /\ Len(inflight') = Len(inflight) + 1
       /\ out'.op \notin {"keyup", "timer"}
            => (timers' = timers /\ out'.fetch = << >>)
      ]_vars

\* C1 witness: the timer of a burst handled by two listeners has elapsed and
\* one request was issued.
C1_Witness ==
    /\ out.op = "timer" /\ Len(out.fetch) = 1 /\ timers = {}
    /\ connected /\ Cardinality(listeners) = 2 /\ Len(inflight) = 1

\* C2: in every reachable state the widget has at most one pending timer.
C2_AtMostOnePendingTimer == Cardinality(timers) <= 1

\* C2 witness: a keyup was handled by two listeners; the second handler
\* cancelled the timer the first had scheduled (handle 1) and left its own
\* (handle 2) as the one pending timer.
C2_Witness ==
    /\ out.op = "keyup" /\ Cardinality(listeners) = 2
    /\ timers = {[id |-> debounceTimer, value |-> inputValue]}
    /\ debounceTimer = 2

\* C3 as claimed: the request issued when the timer elapses carries the
\* input's value at that moment.
C3_QueryIsValueAtExpiry ==
    out.op = "timer" => out.fetch = <<FetchCall(attrs, inputValue)>>

\* C3 as amended: the request issued when the timer elapses carries the value
\* the input had at the keyup that scheduled the timer: a qualifying keyup
\* leaves one pending timer holding the input's value of then, no other step
\* changes it, and the request carries the value the timer holds.
C3_QueryIsValueAtScheduling ==
    [][/\ \A w \in Whichs, c \in KeyCodes :
            (Keyup(w, c) /\ ActsOn(w, c) /\ inputValue # << >> /\ listeners # {})
                => timers' = {[id |-> debounceTimer', value |-> inputValue]}
       /\ \A t \in timers :
            TimerFires(t) => out'.fetch = <<FetchCall(attrs, t.value)>>
       /\ out'.op \notin {"keyup", "timer"} => timers' = timers
      ]_vars

\* C3 witness: a request was issued with the value read at the keyup after the
\* input's value had changed.
C3_Witness ==
    /\ out.op = "timer"
    /\ out.fetch = <<FetchCall(attrs, S_a)>>
    /\ inputValue = S_b

\* C4: a keyup whose key code is 9, 13, 38 or 40 changes nothing of the widget
\* whatever the input's value: no timer is scheduled, cancelled or restarted,
\* no request is issued and no notification emitted.
C4_IgnoredKeysChangeNothing ==
    [][\A w \in Whichs, c \in KeyCodes :
          (Keyup(w, c) /\ EventKey(w, c) \in {9, 13, 38, 40})
              => /\ UNCHANGED widgetVars
                 /\ UNCHANGED inputValue
                 /\ out'.fetch = << >>
                 /\ out'.events = << >>
      ]_vars

\* C4 witness: enter was released on a listening input whose value is not
\* empty and differs from the value the pending timer holds.
C4_Witness ==
    /\ out.op = "keyup" /\ out.key = 13
    /\ listeners # {}
    /\ inputValue # << >>
    /\ \E t \in timers : t.value # inputValue

\* C5: when a successful response carries an options array, the bound list's
\* entries afterwards are exactly that array (same length and order, value and
\* label of each entry the corresponding string, no earlier entry left), and
\* one 'update' notification carrying the array is emitted once the list has
\* been replaced.
C5_OptionsReplaceList ==
    [][\A i \in 1..MaxInflight, a \in OptionArrays :
          JsonSettles(i, TRUE, Body("object", "array", a))
              => /\ datalist \in DOMAIN lists'
                 /\ Len(lists'[datalist]) = Len(a)
                 /\ \A k \in 1..Len(a) :
                        /\ lists'[datalist][k].value = a[k]
                        /\ lists'[datalist][k].text = a[k]
                 /\ \A id \in DOMAIN lists \ {datalist} : lists'[id] = lists[id]
                 /\ Len(out'.events) = 1
                 /\ out'.events[1].type = "update"
                 /\ out'.events[1].options = a
                 /\ out'.events[1].datalist = datalist
                 /\ out'.events[1].seen = lists'[datalist]
      ]_vars

\* C5 witness: a response with two options has replaced the entries of the
\* list the widget adopted from the page.
C5_Witness ==
    /\ out.op = "data" /\ Len(out.events) = 1
    /\ out.events[1].type = "update"
    /\ out.events[1].options = <<S_b, S_a>>
    /\ datalist = ExistingListId
    /\ lists[datalist] = <<Option(S_b, S_b), Option(S_a, S_a)>>

\* Request i has failed in this step: fetch rejected, the status was not ok,
\* or the body did not decode.
C6_Fails(i, error) ==
    IF error = "parse" THEN JsonSettles(i, FALSE, Body("null", "absent", << >>))
    ELSE FetchSettles(i, error)

\* The one notification of a failure: an 'error' event carrying it.
C6_OneError(error) ==
    /\ Len(out'.events) = 1
    /\ out'.events[1].type = "error"
    /\ out'.events[1].error = error
    /\ out'.warns = <<"Failed to fetch options">>

\* C6 as claimed: after a failed request is handled the bound list holds what
\* it held before the request was issued, and one 'error' notification
\* carrying the failure is emitted.
C6_ListAsBeforeIssue ==
    [][\A i \in 1..MaxInflight, e \in {"network", "http", "parse"} :
          C6_Fails(i, e)
              => /\ BoundEntries(lists', datalist) = inflight[i].before
                 /\ C6_OneError(e)
      ]_vars

\* C6 as amended: handling a failed request leaves the bound list as it was
\* immediately before the failure was handled (a response to another request
\* may have replaced it since the failed request was issued), and one 'error'
\* notification carrying the failure is emitted.
C6_FailureLeavesList ==
    [][\A i \in 1..MaxInflight, e \in {"network", "http", "parse"} :
          C6_Fails(i, e)
              => /\ lists' = lists
                 /\ C6_OneError(e)
                 /\ out'.events[1].seen = BoundEntries(lists, datalist)
      ]_vars

\* C6 witness: a body failed to decode while the list held the two entries of
\* an earlier response, and the 'error' notification saw them.
C6_Witness ==
    /\ out.op = "response" /\ Len(out.events) = 1
    /\ out.events[1].type = "error" /\ out.events[1].error = "parse"
    /\ out.events[1].seen = <<Option(S_b, S_b), Option(S_a, S_a)>>
    /\ BoundEntries(lists, datalist) = <<Option(S_b, S_b), Option(S_a, S_a)>>

\* C7 as claimed: while the widget is detached no keyup listener of it is on
\* the input, in every interleaving of attach, detach and the deferred
\* initialization, so a keyup then schedules no timer and issues no request.
C7_NoListenerWhileDetached ==
    ~connected => listeners = {}

\* Reading a query string back: split at "&", each part at its first "=",
\* "+" read as a space and a percent code as the character it stands for.
C8_PercentChar(code) ==
    CASE code = <<"%", "2", "6">> -> "&"
      [] code = <<"%", "3", "D">> -> "="
      [] code = <<"%", "2", "F">> -> "/"
      [] code = <<"%", "3", "F">> -> "?"
      [] code = <<"%", "2", "B">> -> "+"
      [] code = <<"%", "2", "5">> -> "%"
      [] code = <<"%", "2", "2">> -> "\""
      [] code = <<"%", "5", "C">> -> "\\"
      [] OTHER -> "<undecodable>"

RECURSIVE C8_FormDecode(_)
C8_FormDecode(s) ==
    IF s = << >> THEN << >>
    ELSE IF Head(s) = "+" THEN <<" ">> \o C8_FormDecode(Tail(s))
    ELSE IF Head(s) = "%" /\ Len(s) >= 3
    THEN <<C8_PercentChar(SubSeq(s, 1, 3))>> \o C8_FormDecode(SubSeq(s, 4, Len(s)))
    ELSE <<Head(s)>> \o C8_FormDecode(Tail(s))

C8_IndexOf(s, ch) ==
    IF \E i \in DOMAIN s : s[i] = ch
    THEN CHOOSE i \in DOMAIN s : s[i] = ch /\ \A j \in 1..(i - 1) : s[j] # ch
    ELSE 0

RECURSIVE C8_Split(_, _)
C8_Split(s, sep) ==
    LET i == C8_IndexOf(s, sep)
    IN  IF i = 0 THEN <<s>>
        ELSE <<SubSeq(s, 1, i - 1)>> \o C8_Split(SubSeq(s, i + 1, Len(s)), sep)

C8_ParsePair(part) ==
    LET i == C8_IndexOf(part, "=")
    IN  IF i = 0 THEN <<C8_FormDecode(part), << >> >>
        ELSE <<C8_FormDecode(SubSeq(part, 1, i - 1)),
               C8_FormDecode(SubSeq(part, i + 1, Len(part)))>>

C8_ParseQuery(q) ==
    LET parts == C8_Split(q, "&")
    IN  [j \in DOMAIN parts |-> C8_ParsePair(parts[j])]

\* Reading a JSON string literal whose opening quote is before position i.
RECURSIVE C8_ReadString(_, _, _)
C8_ReadString(s, i, acc) ==
    IF i > Len(s) THEN [str |-> acc, next |-> Len(s) + 2]
    ELSE IF s[i] = "\"" THEN [str |-> acc, next |-> i + 1]
    ELSE IF s[i] = "\\" /\ i < Len(s)
    THEN C8_ReadString(s, i + 2, Append(acc, s[i + 1]))
    ELSE C8_ReadString(s, i + 1, Append(acc, s[i]))

\* Reading back a JSON object of one string member: its name/value pairs,
\* none when the text is no such object.
C8_ParseJsonObject(s) ==
    IF Len(s) < 7 \/ s[1] # "{" \/ s[2] # "\"" THEN << >>
    ELSE LET k == C8_ReadString(s, 3, << >>)
         IN  IF k.next + 1 > Len(s) \/ s[k.next] # ":" \/ s[k.next + 1] # "\""
             THEN << >>
             ELSE LET v == C8_ReadString(s, k.next + 2, << >>)
                  IN  IF v.next = Len(s) /\ s[v.next] = "}"
                      THEN << <<k.str, v.str>> >>
                      ELSE << >>

\* The method attribute spells post in any mix of cases.
C8_IsPost(m) ==
    /\ m # Null
    /\ Len(m) = 4
    /\ m[1] \in {"p", "P"} /\ m[2] \in {"o", "O"}
    /\ m[3] \in {"s", "S"} /\ m[4] \in {"t", "T"}

\* The configured key: the key attribute, "query" when it is absent or empty.
C8_Key(k) == IF k = Null \/ k = << >> THEN <<"q", "u", "e", "r", "y">> ELSE k

\* C8: the request issued for query value v is a POST to the endpoint with
\* the JSON body {key: v} and the header Content-Type: application/json
\* exactly when the method attribute is 'post' in any case; for every other
\* method it is a GET, without body or header, to the endpoint followed by
\* "?" and a query string that reads back as the one parameter key = v.
C8_RequestShape ==
    [][\A t \in timers :
          TimerFires(t)
              => LET r == out'.fetch[1]
                     e == attrs.endpoint
                     k == C8_Key(attrs.key)
                 IN  /\ Len(out'.fetch) = 1
                     /\ IF C8_IsPost(attrs.method)
                        THEN /\ r.method = "POST"
                             /\ r.url = e
                             /\ r.headers = {<<"Content-Type", "application/json">>}
                             /\ r.body # Null
                             /\ C8_ParseJsonObject(r.body) = << <<k, t.value>> >>
                        ELSE /\ r.method = "GET"
                             /\ r.headers = {}
                             /\ r.body = Null
                             /\ Len(r.url) > Len(e) + 1
                             /\ SubSeq(r.url, 1, Len(e)) = e
                             /\ r.url[Len(e) + 1] = "?"
                             /\ C8_ParseQuery(SubSeq(r.url, Len(e) + 2, Len(r.url)))
                                    = << <<k, t.value>> >>
      ]_vars

\* C8 witness: with the method attribute POST in capitals, a key and a value
\* that need escaping, the request is the POST with the escaped JSON body.
C8_Witness ==
    /\ out.op = "timer" /\ Len(out.fetch) = 1
    /\ attrs.method = S_POST /\ attrs.key = S_amp
    /\ out.fetch[1].method = "POST"
    /\ out.fetch[1].body =
          <<"{", "\"", "x", "&", "y", "=", "z", "\"", ":",
            "\"", "\\", "\"", "\\", "\\", "a", "\"", "}">>

\* The string an assigned value is stored as.
C9_Stringified(v) ==
    CASE v = JsString(S_empty) -> << >>
      [] v = JsString(S_post) -> <<"p", "o", "s", "t">>
      [] v = JsString(S_k) -> <<"k">>
      [] v = JsNumber(0) -> <<"0">>
      [] v = JsNumber(42) -> <<"4", "2">>
      [] v = JsBoolean(FALSE) -> <<"f", "a", "l", "s", "e">>
      [] OTHER -> Null

\* C9: for each of endpoint, method and key, assigning the property a value
\* that is neither null nor undefined sets the same-named attribute to the
\* value as a string, assigning null or undefined removes the attribute, and
\* no other attribute changes.
C9_SetterReflects ==
    [][\A n \in AttrNames, v \in ReflectValues :
          SetProperty(n, v)
              => /\ attrs'[n] = IF v = JsNull \/ v = JsUndefined THEN Null
                                ELSE C9_Stringified(v)
                 /\ v \notin {JsNull, JsUndefined} => attrs'[n] # Null
                 /\ \A m \in AttrNames \ {n} : attrs'[m] = attrs[m]
      ]_vars

\* C9 witness: the number 0 was assigned to method and is stored as "0",
\* while the endpoint attribute, assigned null, is absent and key holds "".
C9_Witness ==
    /\ out.op = "set"
    /\ attrs.method = <<"0">>
    /\ attrs.endpoint = Null
    /\ attrs.key = << >>

\* C10 as claimed: reading a property returns the attribute's value whenever
\* the attribute is present, the empty string included, and the default
\* ('get', 'query', nothing for endpoint) when it is absent.
C10_ReadReturnsAttribute ==
    \A n \in AttrNames :
        PropertyGetter(attrs, n) =
            IF attrs[n] # Null THEN attrs[n]
            ELSE IF n = "method" THEN <<"g", "e", "t">>
            ELSE IF n = "key" THEN <<"q", "u", "e", "r", "y">>
            ELSE Null

\* C10 as amended: reading endpoint returns the attribute's value whenever it
\* is present and nothing (null) when it is absent; reading method or key
\* returns the attribute's value when it is present and not empty, and the
\* default ('get', 'query') when it is absent or the empty string.
C10_ReadReturnsAttributeOrDefault ==
    /\ PropertyGetter(attrs, "endpoint") = attrs.endpoint
    /\ PropertyGetter(attrs, "method") =
          IF attrs.method # Null /\ attrs.method # << >> THEN attrs.method
          ELSE <<"g", "e", "t">>
    /\ PropertyGetter(attrs, "key") =
          IF attrs.key # Null /\ attrs.key # << >> THEN attrs.key
          ELSE <<"q", "u", "e", "r", "y">>

\* C10 witness: the page has set endpoint and method to the empty string and
\* removed key.
C10_Witness ==
    /\ out.op = "set"
    /\ attrs.endpoint = << >>
    /\ attrs.method = << >>
    /\ attrs.key = Null

\* The attribute value an assigned value is stored as (Null: no attribute).
C11_Stored(v) ==
    CASE v = JsString(S_api) -> <<"/", "x">>
      [] v = JsString(S_POST) -> <<"P", "O", "S", "T">>
      [] v = JsString(S_empty) -> << >>
      [] v = JsNumber(42) -> <<"4", "2">>
      [] OTHER -> Null

\* What reading property n gives when its attribute holds a.
C11_Read(n, a) ==
    IF n = "endpoint" THEN a
    ELSE IF a # Null /\ a # << >> THEN a
    ELSE IF n = "method" THEN <<"g", "e", "t">>
    ELSE <<"q", "u", "e", "r", "y">>

\* C11 as claimed: immediately after attachment, each property assigned a
\* string beforehand reads as that string, the same-named attribute holds it,
\* and no own instance field shadows an accessor.
C11_AssignedValueHeld ==
    [][Attach
          => /\ own' = [n \in AttrNames |-> Absent]
             /\ \A n \in AttrNames :
                    own[n].t = "string"
                        => /\ attrs'[n] = own[n].s
                           /\ PropertyGetter(attrs', n) = own[n].s
      ]_vars

\* C11 as amended: immediately after attachment, for any subset of the three
\* assigned beforehand, the same-named attribute holds the assigned value as a
\* string (it is absent when the value was null), the property reads that
\* attribute back (the assigned string itself when it is not empty; the
\* default for method and key when it is empty or the attribute is absent),
\* no own instance field shadows an accessor, and the attributes of the
\* properties not assigned are as before.
C11_AssignedValueReflected ==
    [][Attach
          => /\ own' = [n \in AttrNames |-> Absent]
             /\ \A n \in AttrNames :
                    IF own[n] # Absent
                    THEN /\ attrs'[n] = C11_Stored(own[n])
                         /\ PropertyGetter(attrs', n) = C11_Read(n, C11_Stored(own[n]))
                         /\ (own[n].t = "string" /\ own[n].s # << >>)
                                => PropertyGetter(attrs', n) = own[n].s
                    ELSE attrs'[n] = attrs[n]
      ]_vars

\* C11 witness: the element was attached after endpoint, method and key had
\* been assigned "/x", "" and 42: the attributes hold "/x", "" and "42" and no
\* own field is left.
C11_Witness ==
    /\ out.op = "attach"
    /\ own = [n \in AttrNames |-> Absent]
    /\ attrs.endpoint = <<"/", "x">>
    /\ attrs.method = << >>
    /\ attrs.key = <<"4", "2">>

\* C12 as claimed: when initialization gets as far as the list binder (an
\* input is found, an endpoint is configured) and the input's list attribute
\* is the id of an existing list, the widget binds that list, creates no
\* list and leaves the input's list attribute as it was.
C12_AdoptsExistingList ==
    [][(InitStep /\ input' /\ attrs.endpoint \notin {Null, << >>}
            /\ inputList # << >> /\ inputList \in DOMAIN lists)
          => /\ datalist' = inputList
             /\ DOMAIN lists' = DOMAIN lists
             /\ inputList' = inputList
      ]_vars

\* The lists the widget has created: those the page did not provide.
C13_Created(ls) ==
    {id \in DOMAIN ls : id \notin {<<"m", "y", "-", "l", "i", "s", "t">>,
                                    <<"o", "u", "t", "e", "r">>,
                                    <<"1", "s", "t">>}}

\* C13: when initialization gets as far as the list binder and the input has
\* no list attribute, exactly one list is created: it is new, empty, a
\* descendant of the widget, bound by the widget, and the input's list
\* attribute is set to its id; no list of the page changes.  In every state,
\* over any sequence of detach and re-attach, the widget has created at most
\* one list.
C13_CreatesOneList ==
    /\ [][(InitStep /\ input' /\ attrs.endpoint \notin {Null, << >>}
               /\ inputList = << >>)
             => /\ Cardinality(DOMAIN lists' \ DOMAIN lists) = 1
                /\ DOMAIN lists \subseteq DOMAIN lists'
                /\ \A id \in DOMAIN lists : lists'[id] = lists[id]
                /\ \A id \in DOMAIN lists' \ DOMAIN lists :
                       /\ lists'[id] = << >>
                       /\ id \in Descendants(lists')
                       /\ inputList' = id
                       /\ datalist' = id
         ]_vars
    /\ [](Cardinality(C13_Created(lists)) <= 1)

\* C13 witness: the widget, whose input had no list attribute, has been
\* initialized a second time (two of its handlers are on the input) and the
\* one list it created is the bound list and the input's list.
C13_Witness ==
    /\ out.op = "init" /\ Len(out.events) = 1
    /\ Cardinality(listeners) = 2
    /\ C13_Created(lists) = {datalist}
    /\ inputList = datalist
    /\ lists[datalist] = << >>

\* C14: an initialization that finds no descendant input logs the one warning
\* 'No input element found' and does nothing else: no notification, no
\* listener, no list created or bound, the input's list attribute untouched.
\* In every state of a widget without a descendant input no listener of it is
\* registered, it has bound and created no list and the last step emitted no
\* 'ready'.
C14_NoInputAborts ==
    /\ [][(InitStep /\ ~hasInputChild)
             => /\ out'.warns = <<"No input element found">>
                /\ out'.events = << >>
                /\ out'.fetch = << >>
                /\ ~input'
                /\ UNCHANGED <<listeners, lists, datalist, inputList, timers>>
         ]_vars
    /\ [](~hasInputChild
            => /\ listeners = {}
               /\ datalist = << >>
               /\ C13_Created(lists) = {}
               /\ \A i \in DOMAIN out.events : out.events[i].type # "ready")

\* C14 witness: a widget without an input, with an endpoint configured, has
\* run its initialization for the second time and logged the warning.
C14_Witness ==
    /\ ~hasInputChild /\ attrs.endpoint = <<"/", "x">>
    /\ out.op = "init" /\ out.warns = <<"No input element found">>
    /\ pendingInit = 1 /\ ~connected

\* C15: an initialization that finds the input but no endpoint (the
\* attribute absent or empty) logs the one warning 'No endpoint attribute
\* specified' and does nothing else: no list is bound or created, the input's
\* list attribute is untouched, no listener is attached, nothing is emitted.
\* While the endpoint stays unconfigured no listener of the widget is on the
\* input, so no keyup schedules a timer and no request is issued.
C15_NoEndpointAborts ==
    /\ [][(InitStep /\ hasInputChild /\ attrs.endpoint \in {Null, << >>})
             => /\ out'.warns = <<"No endpoint attribute specified">>
                /\ out'.events = << >>
                /\ out'.fetch = << >>
                /\ UNCHANGED <<listeners, lists, datalist, inputList, timers,
                               inflight>>
         ]_vars
    /\ [](attrs.endpoint \in {Null, << >>}
            => /\ listeners = {}
               /\ datalist = << >>
               /\ C13_Created(lists) = {}
               /\ timers = {}
               /\ inflight = << >>
               /\ out.fetch = << >>
               /\ out.events = << >>)

\* C15 witness: after the initialization of a widget with an input, a typed
\* value and no endpoint had aborted, a key was released on the input: no
\* timer is pending, no list bound.
C15_Witness ==
    /\ attrs.endpoint = Null /\ input /\ pendingInit = 0 /\ connected
    /\ out.op = "keyup" /\ out.key = 65 /\ inputValue = <<"a">>
    /\ timers = {} /\ datalist = << >>
    /\ inputList = <<"m", "y", "-", "l", "i", "s", "t">>

\* The step emitted a 'ready' notification.
C16_EmitsReady == \E i \in DOMAIN out'.events : out'.events[i].type = "ready"

\* C16 as claimed: 'ready' is emitted only by an initialization of a widget
\* that has not completed an initialization before (it holds no list yet), so
\* an instance emits it at most once over detach and re-attach.
C16_ReadyOnlyOnce ==
    [][C16_EmitsReady => (InitStep /\ datalist = << >>)]_vars

\* C16 as amended: 'ready' is emitted once by every initialization that
\* completes (an input is found, an endpoint is configured, the list lookup
\* does not fail) and by no other step, after the list has been resolved and
\* the keyup listener attached: the notification carries the bound list,
\* which exists, and the handler just bound is on the input.  A re-attached
\* widget is initialized again and emits 'ready' again.
C16_ReadyPerInitialization ==
    [][/\ C16_EmitsReady => InitStep
       /\ InitStep
            => /\ C16_EmitsReady
                    <=> (input' /\ attrs.endpoint \notin {Null, << >>}
                            /\ out'.op # "throw")
               /\ C16_EmitsReady
                    => /\ Len(out'.events) = 1
                       /\ out'.events[1].input
                       /\ out'.events[1].datalist = datalist'
                       /\ datalist' # << >>
                       /\ datalist' \in DOMAIN lists'
                       /\ inputList' = datalist'
                       /\ boundHandleKeyup' \in listeners'
      ]_vars

\* C16 witness: an initialization of a widget that already holds a list and
\* a listener from an earlier initialization has emitted 'ready' again.
C16_Witness ==
    /\ out.op = "init" /\ connected
    /\ Len(out.events) = 1 /\ out.events[1].type = "ready"
    /\ listeners = {1, 2} /\ boundHandleKeyup = 2
    /\ datalist = <<"o", "u", "t", "e", "r">>

\* The text an endpoint attribute contributes to a GET target: the value,
\* "null" when the attribute is absent.
C17_EndpointText(e) == IF e = Null THEN <<"n", "u", "l", "l">> ELSE e

\* C17: the request issued when the timer elapses is built from the three
\* attributes as they are at that moment, whatever they were when the keyup
\* scheduled the timer: it is a POST exactly when the method attribute now
\* spells post, it targets the endpoint attribute of now, and its one
\* parameter is named by the key attribute of now ('query' when there is
\* none) and carries the value the timer holds.
C17_RequestUsesCurrentConfig ==
    [][\A t \in timers :
          TimerFires(t)
              => LET r == out'.fetch[1]
                     k == C8_Key(attrs.key)
                     e == C17_EndpointText(attrs.endpoint)
                 IN  /\ Len(out'.fetch) = 1
                     /\ (r.method = "POST") <=> C8_IsPost(attrs.method)
                     /\ r.method = "POST"
                            => /\ r.url = attrs.endpoint
                               /\ C8_ParseJsonObject(r.body) = << <<k, t.value>> >>
                     /\ r.method # "POST"
                            => /\ r.method = "GET"
                               /\ SubSeq(r.url, 1, Len(e) + 1) = e \o <<"?">>
                               /\ C8_ParseQuery(SubSeq(r.url, Len(e) + 2, Len(r.url)))
                                      = << <<k, t.value>> >>
      ]_vars

\* C17 witness: endpoint, method and key were all changed while the timer was
\* pending, and the request is the POST to the new endpoint under the new key.
C17_Witness ==
    /\ out.op = "timer" /\ Len(out.fetch) = 1
    /\ attrs = [endpoint |-> <<"/", "x", "?", "y">>,
                method |-> <<"P", "O", "S", "T">>, key |-> <<"k">>]
    /\ out.fetch[1].method = "POST"
    /\ out.fetch[1].url = <<"/", "x", "?", "y">>
    /\ out.fetch[1].body = <<"{", "\"", "k", "\"", ":", "\"", "a", "\"", "}">>

\* C18 as claimed: a keyup the handler acts on, received while the input's
\* value is empty, leaves the pending timers as they are.
C18_EmptyValueKeepsTimer ==
    [][\A w \in Whichs, c \in KeyCodes :
          (Keyup(w, c) /\ ActsOn(w, c) /\ inputValue = << >>)
              => timers' = timers
      ]_vars

\* C18 as amended: a keyup the handler acts on, received on a listening input
\* whose value is empty, cancels the pending timer and schedules none: no
\* timer is pending afterwards, so the request of the earlier keyup is never
\* issued (only a pending timer that elapses issues a request).
C18_EmptyValueCancelsTimer ==
    [][/\ \A w \in Whichs, c \in KeyCodes :
            (Keyup(w, c) /\ ActsOn(w, c) /\ inputValue = << >> /\ listeners # {})
                => /\ timers' = {}
                   /\ out'.cancelled = Cardinality(timers)
                   /\ out'.fetch = << >>
                   /\ inflight' = inflight
       /\ out'.fetch # << >> => \E t \in timers : TimerFires(t)
      ]_vars

\* C18 witness: a key was released on the listening input after the page had
\* emptied it, and the timer an earlier keyup scheduled was cancelled.
C18_Witness ==
    /\ out.op = "keyup" /\ out.key = 65 /\ out.cancelled = 1
    /\ inputValue = << >> /\ listeners # {}
    /\ timers = {} /\ debounceTimer # 0

\* C19: a successful response carrying options is applied when it arrives,
\* whichever request it belongs to: also when a request issued later has
\* already updated the list, the list afterwards holds exactly the options of
\* the response handled now, and an 'update' notification carries them.  So
\* after two requests in flight have both resolved, the list holds the
\* options of the one that resolved last.
C19_LastResponseWins ==
    [][\A i \in 1..MaxInflight, a \in OptionArrays :
          JsonSettles(i, TRUE, Body("object", "array", a))
              => /\ BoundEntries(lists', datalist) =
                        [k \in DOMAIN a |-> [value |-> a[k], text |-> a[k]]]
                 /\ out'.stale = inflight[i].overtaken
                 /\ Len(out'.events) = 1
                 /\ out'.events[1].type = "update"
                 /\ out'.events[1].options = a
                 /\ Len(inflight') = Len(inflight) - 1
      ]_vars

\* C19 witness: of two requests in flight the one issued later had already
\* updated the list when the earlier one resolved with the option a: the list
\* holds a alone and no request is in flight.
C19_Witness ==
    /\ out.op = "data" /\ out.stale
    /\ Len(out.events) = 1 /\ out.events[1].type = "update"
    /\ out.events[1].options = <<S_a>>
    /\ BoundEntries(lists, datalist) = <<Option(S_a, S_a)>>
    /\ inflight = << >>

\* C20 as claimed: while the widget is detached no request is issued.  It is
\* stated for a detached widget none of whose listeners is on the input (the
\* detachment removed it), so that a request issued then comes from a timer
\* that was pending when the widget was detached.
C20_NoRequestAfterDetach ==
    [][(~connected /\ listeners = {}) => out'.fetch = << >>]_vars

\* C21 as claimed: when a response is successful and its decoded body holds
\* no options array (it is null, a scalar, or an object whose options field
\* is absent, falsy or no array), the lists are left as they are, no
\* notification is emitted and nothing is logged.
C21_NoOptionsIsSilent ==
    [][\A i \in 1..MaxInflight, d \in Bodies :
          (JsonSettles(i, TRUE, d) /\ ~(d.kind = "object" /\ d.opt = "array"))
              => /\ lists' = lists
                 /\ out'.events = << >>
                 /\ out'.warns = << >>
      ]_vars

\* An initialization of the widget has aborted and none has completed: the
\* widget resolved its input and holds no list (it aborted for the missing
\* endpoint), or it is attached, its initialization has run and it holds no
\* input (it aborted for the missing input).
C22_Aborted ==
    /\ datalist = << >>
    /\ input \/ (connected /\ pendingInit = 0)

\* C22 as claimed: once an initialization has aborted, no later step attaches
\* a listener, emits 'ready' or issues a request.
C22_InertForever ==
    [][C22_Aborted
          => /\ listeners' = {}
             /\ out'.fetch = << >>
             /\ ~C16_EmitsReady
      ]_vars

\* C22 as amended: once an initialization has aborted, no step other than an
\* initialization run by a later attachment attaches a listener, binds a
\* list, schedules a timer, emits anything or issues a request: a change of
\* the endpoint or the insertion of an input alone changes nothing of that.
\* Initialization runs once per attachment; run again on a widget whose
\* earlier initialization aborted, it completes (emits 'ready', attaches the
\* listener) exactly when an input and a non-empty endpoint are then present.
C22_InertUntilReattached ==
    [][/\ C22_Aborted
            => /\ ~InitStep
                    => /\ listeners' = {} /\ timers' = {} /\ datalist' = << >>
                       /\ out'.fetch = << >> /\ out'.events = << >>
               /\ InitStep
                    => /\ C16_EmitsReady
                            <=> ((input \/ hasInputChild)
                                    /\ attrs.endpoint \notin {Null, << >>})
                       /\ C16_EmitsReady <=> listeners' # {}
       /\ pendingInit' > pendingInit => (Attach /\ pendingInit' = pendingInit + 1)
       /\ InitStep => pendingInit > 0
      ]_vars

\* C22 witness: the initialization of an attached widget aborted for the
\* missing input; the page then inserted an input and a key was released on
\* it: no listener, no timer, no list.
C22_Witness ==
    /\ connected /\ pendingInit = 0 /\ ~input /\ hasInputChild
    /\ attrs.endpoint = <<"/", "x">>
    /\ out.op = "keyup" /\ listeners = {} /\ timers = {} /\ datalist = << >>

\* C23: once the widget holds a list, every later step (keyup, timer,
\* response, detach, attach, initialization) leaves it holding the same list,
\* and that list still exists; no further list is created.
C23_BoundListStable ==
    [][datalist # << >>
          => /\ datalist' = datalist
             /\ datalist' \in DOMAIN lists'
             /\ DOMAIN lists' = DOMAIN lists
      ]_vars

\* C23 witness: a widget that adopted the page's list, and whose list a
\* response has since replaced with the option b, has been initialized again
\* and announces the same list.
C23_Witness ==
    /\ out.op = "init" /\ Len(out.events) = 1
    /\ out.events[1].type = "ready"
    /\ out.events[1].datalist = <<"m", "y", "-", "l", "i", "s", "t">>
    /\ datalist = <<"m", "y", "-", "l", "i", "s", "t">>
    /\ lists[datalist] = <<Option(S_b, S_b)>>

\* The last step notified a failure.
C24_AfterError ==
    \E k \in DOMAIN out.events : out.events[k].type = "error"

\* C24: handling a failed request issues no request, removes that request
\* from those in flight and leaves the timers, the timer handle, the
\* listeners and the bindings as they are; right after the failure a
\* qualifying keyup on the listening input schedules one timer holding the
\* input's value; every timer that elapses issues exactly one request and no
\* other step issues any, so the requests issued are as many as the timers
\* that elapsed.
C24_FailureLeavesCycleUsable ==
    [][/\ \A i \in 1..MaxInflight, e \in {"network", "http", "parse"} :
            C6_Fails(i, e)
                => /\ out'.fetch = << >>
                   /\ Len(inflight') = Len(inflight) - 1
                   /\ UNCHANGED <<timers, debounceTimer, listeners,
                                  boundHandleKeyup, input, datalist, attrs,
                                  connected>>
       /\ (C24_AfterError /\ Keyup(65, 0) /\ inputValue # << >> /\ listeners # {})
            => /\ Cardinality(timers') = 1
               /\ \A t \in timers' : t.value = inputValue /\ t.id = debounceTimer'
       /\ \A t \in timers :
            TimerFires(t) => /\ Len(out'.fetch) = 1
                             /\ Len(inflight') = Len(inflight) + 1
       /\ out'.fetch # << >> => \E t \in timers : TimerFires(t)
      ]_vars

\* C24 witness: a request has just failed with a status that is not ok while
\* the timer of a later keyup is pending on the listening input; no request
\* is in flight any more.
C24_Witness ==
    /\ out.op = "response" /\ Len(out.events) = 1
    /\ out.events[1].type = "error" /\ out.events[1].error = "http"
    /\ listeners # {} /\ inputValue = <<"a">>
    /\ Cardinality(timers) = 1 /\ inflight = << >>

\* The method attribute spells get in any mix of cases.
C25_IsGet(m) ==
    /\ m # Null
    /\ Len(m) = 3
    /\ m[1] \in {"g", "G"} /\ m[2] \in {"e", "E"} /\ m[3] \in {"t", "T"}

\* The configured method is neither get nor post: the attribute is present,
\* not empty, and spells neither.
C25_Invalid(m) ==
    m # Null /\ m # << >> /\ ~C25_IsGet(m) /\ ~C8_IsPost(m)

\* C25: the initialization of a widget with an input and an endpoint logs the
\* 'Invalid method' warning exactly when the configured method is neither get
\* nor post, and completes all the same: a list is bound, the new handler is
\* on the input, 'ready' is emitted.  No step changes the method attribute,
\* and every request issued under such a method is a GET to the endpoint
\* with the one query parameter.
C25_InvalidMethodFallsBack ==
    [][/\ InitStep
            => /\ out'.warns = IF C25_Invalid(attrs.method)
                               THEN <<"Invalid method">> ELSE << >>
               /\ Len(out'.events) = 1 /\ out'.events[1].type = "ready"
               /\ datalist' # << >> /\ datalist' \in DOMAIN lists'
               /\ boundHandleKeyup' \in listeners'
       /\ attrs' = attrs
       /\ \A t \in timers :
            (TimerFires(t) /\ C25_Invalid(attrs.method))
                => /\ Len(out'.fetch) = 1
                   /\ out'.fetch[1].method = "GET"
                   /\ out'.fetch[1].body = Null
                   /\ out'.fetch[1].headers = {}
                   /\ out'.fetch[1].url =
                          attrs.endpoint \o <<"?", "q", "u", "e", "r", "y", "=">>
                              \o t.value
      ]_vars

\* C25 witness: a widget configured with the method PUT was initialized, and
\* its request is a GET while the attribute still reads PUT.
C25_Witness ==
    /\ out.op = "timer" /\ Len(out.fetch) = 1
    /\ attrs.method = <<"P", "U", "T">>
    /\ out.fetch[1].method = "GET"
    /\ out.fetch[1].url = <<"/", "x", "?", "q", "u", "e", "r", "y", "=", "a">>
    /\ listeners # {} /\ datalist # << >>

\* Request i fails in this step with failure e: fetch rejects, the status is
\* not ok, the body does not decode, or the decoded body is null, on which
\* reading a field throws.
C26_Fails(i, e) ==
    IF e = "type" THEN JsonSettles(i, TRUE, Body("null", "absent", << >>))
    ELSE C6_Fails(i, e)

\* C26: every failure of a request (transport, status, decoding, a null
\* body) ends its __fetchOptions call normally: the call leaves the calls in
\* flight, its promise is not rejected, the warning 'Failed to fetch options'
\* is logged and one 'error' notification carrying the failure is emitted.
\* No step at all ends a call with its promise rejected.
C26_NoFailureEscapes ==
    [][/\ \A i \in 1..MaxInflight, e \in {"network", "http", "parse", "type"} :
            C26_Fails(i, e)
                => /\ ~out'.rejected
                   /\ Len(inflight') = Len(inflight) - 1
                   /\ out'.warns = <<"Failed to fetch options">>
                   /\ Len(out'.events) = 1
                   /\ out'.events[1].type = "error"
                   /\ out'.events[1].error = e
       /\ ~out'.rejected
      ]_vars

\* C26 witness: a response with the body null was handled as a failure: the
\* warning and the 'error' notification are out, the call has completed.
C26_Witness ==
    /\ out.op = "data" /\ ~out.rejected
    /\ out.warns = <<"Failed to fetch options">>
    /\ Len(out.events) = 1 /\ out.events[1].type = "error"
    /\ out.events[1].error = "type"
    /\ inflight = << >>

\* C27: every 'ready', 'update' and 'error' notification emitted by a step
\* carries the input and the list the widget is bound to after that step,
\* both resolved (the input found, the list an element of the page), ahead
\* of whatever the extra fields (options, error) hold.
C27_EventsCarryReferences ==
    [][\A k \in 1..Len(out'.events) :
          LET e == out'.events[k]
          IN  /\ e.type \in {"ready", "update", "error"}
              /\ e.input = TRUE /\ input' = TRUE
              /\ e.datalist # << >>
              /\ e.datalist = datalist'
              /\ e.datalist \in DOMAIN lists'
      ]_vars

\* C27 witness: an 'error' notification was emitted by a widget bound to the
\* list outside it that its input named, and carries that input and list.
C27_Witness ==
    /\ Len(out.events) = 1
    /\ out.events[1].type = "error"
    /\ out.events[1].input = TRUE
    /\ out.events[1].datalist = <<"o", "u", "t", "e", "r">>
    /\ datalist = <<"o", "u", "t", "e", "r">>

\* C28: when the list was last updated with an option array and a response
\* with the same array is applied next, the lists are left as the first
\* application made them, whatever the list held before it.
C28_UpdateIdempotent ==
    [][\A i \in 1..MaxInflight, a \in OptionArrays :
          (/\ out.op = "data"
           /\ Len(out.events) = 1
           /\ out.events[1].type = "update"
           /\ out.events[1].options = a
           /\ JsonSettles(i, TRUE, Body("object", "array", a)))
              => /\ lists' = lists
                 /\ Len(lists'[datalist]) = Len(a)
                 /\ out'.events[1].seen = out.events[1].seen
      ]_vars

\* C28 witness: a two-option response of a request issued before the
\* previous update has been applied, and the list holds two entries.
C28_Witness ==
    /\ out.op = "data" /\ out.stale
    /\ Len(out.events) = 1 /\ out.events[1].type = "update"
    /\ Len(out.events[1].options) = 2
    /\ out.events[1].options[1] = out.events[1].options[2]
    /\ Len(lists[datalist]) = 2

\* C29 as claimed: at any time at most one keyup listener of the widget is
\* registered on the input, in every interleaving of attach, detach and the
\* deferred initializations, so one keyup runs the handler at most once.
C29_AtMostOneListener ==
    Cardinality(listeners) <= 1

\* The query value request r carries, read back from its JSON body (POST) or
\* from the query string after the first "?" of its URL (GET); Null when the
\* request does not read as one key with one value.
C30_Value(r) ==
    LET pairs ==
            IF r.method = "POST" THEN C8_ParseJsonObject(r.body)
            ELSE IF \E i \in 1..Len(r.url) : r.url[i] = "?"
            THEN LET q == CHOOSE i \in 1..Len(r.url) :
                              /\ r.url[i] = "?"
                              /\ \A j \in 1..(i - 1) : r.url[j] # "?"
                 IN  C8_ParseQuery(SubSeq(r.url, q + 1, Len(r.url)))
            ELSE << >>
    IN  IF Len(pairs) = 1 THEN pairs[1][2] ELSE Null

\* C30: every request a step issues reads back as one key with a value that
\* is not the empty string, over every sequence of keyups and input values
\* (the input cleared while a timer is pending included); no pending timer
\* holds the empty string.
C30_RequestsCarryValue ==
    /\ [][\A k \in 1..Len(out'.fetch) :
            /\ C30_Value(out'.fetch[k]) # Null
            /\ C30_Value(out'.fetch[k]) # << >>
        ]_vars
    /\ [](\A t \in timers : t.value # << >>)

\* C30 witness: the input was cleared while the timer was pending, and the
\* request issued when it elapsed carries the value typed before.
C30_Witness ==
    /\ out.op = "timer" /\ Len(out.fetch) = 1
    /\ inputValue = << >>
    /\ C30_Value(out.fetch[1]) = <<"a">>

\* C31 as claimed: every request is issued while an endpoint is configured
\* and not empty, and targets it, also after the endpoint attribute was
\* removed or the endpoint property set to null once the widget was ready.
C31_RequestTargetsEndpoint ==
    out.op = "timer"
        => /\ attrs.endpoint # <<"<null>">>
           /\ attrs.endpoint # << >>
           /\ \A k \in 1..Len(out.fetch) :
                 /\ out.fetch[k].url # <<"<null>">>
                 /\ Len(out.fetch[k].url) >= Len(attrs.endpoint)
                 /\ SubSeq(out.fetch[k].url, 1, Len(attrs.endpoint))
                        = attrs.endpoint

\* C32: a step of a request (its issue, the settling of its fetch or of its
\* body) emits at most one notification, an 'update' or an 'error'; the step
\* that emits it is the last of its request, which leaves the calls in
\* flight, so no request is answered with both; a step that keeps its
\* request in flight emits nothing and leaves the lists alone; and the lists
\* change only in a step that emits the 'update'.
C32_OneOutcomePerRequest ==
    [][out'.op \in {"timer", "response", "data"}
          => /\ Len(out'.events) <= 1
             /\ \A k \in 1..Len(out'.events) :
                   out'.events[k].type \in {"update", "error"}
             /\ Len(out'.events) = 1 => Len(inflight') = Len(inflight) - 1
             /\ Len(inflight') >= Len(inflight)
                   => (out'.events = << >> /\ lists' = lists)
             /\ lists' # lists
                   => /\ Len(out'.events) = 1
                      /\ out'.events[1].type = "update"
             /\ (Len(out'.events) = 1 /\ out'.events[1].type = "error")
                   => lists' = lists
      ]_vars

\* C32 witness: the only request in flight ended with one 'update' carrying
\* one option, which is now the list's one entry; nothing was logged.
C32_Witness ==
    /\ out.op = "data" /\ ~out.stale /\ out.warns = << >>
    /\ Len(out.events) = 1 /\ out.events[1].type = "update"
    /\ out.events[1].options = <<<<"b">>>>
    /\ Len(lists[datalist]) = 1
    /\ inflight = << >>

====
